---------------------------- MODULE Spec2Model ----------------------------
(***************************************************************************)
(* Model of the two lexicon-builder programs of the repository:            *)
(*   hit_api.py     stop-word-list filtering + per-word translation        *)
(*   lexikon_v2.py  tag-based filtering (spaCy) + batch translation        *)
(* Strings of the source text are sequences of code points (naturals), so  *)
(* that lower(), the regular expressions, split() and sorted() are         *)
(* computed character by character.  Part-of-speech tags and translations  *)
(* are opaque strings.  A text file's content written by "\n".join(lines)  *)
(* is kept as the sequence of its lines.                                   *)
(***************************************************************************)
EXTENDS Naturals, Sequences, FiniteSets, TLC

VARIABLES
    prog,          \* which script runs: "hit_api" or "lexikon_v2"
    pc,            \* position of the script
    fileState,     \* the source file: "ok", "missing" or "unreadable"
    fileContent,   \* its content when it can be read
    text,          \* hit_api.text / lexikon_v2.text_content
    cleaned,       \* the value of clean(text) inside process()
    doc,           \* lexikon_v2: nlp(text), the tagged tokens
    words,         \* hit_api.words / lexikon_v2.unique_lemmas
    i,             \* hit_api: index of the next word of the resolution loop
    result,        \* hit_api: the last value returned by query_one_word
    lexicon,       \* hit_api.lexicon, a list of single_translation records
    response,      \* lexikon_v2: response.translations of the batch request
    lexicon_data,  \* lexikon_v2: translated_data, a dict word -> senses
    printed,       \* hit_api: the lines printed at the end
    lemmasFile,    \* lexikon_v2: unique_lemmas.txt
    outFile,       \* lexikon_v2: lexicon_output.txt
    exit,          \* "running", "0" (normal end or exit()), "1" (traceback)
    exc            \* the uncaught exception, "none" if there is none

vars == <<prog, pc, fileState, fileContent, text, cleaned, doc, words, i,
          result, lexicon, response, lexicon_data, printed, lemmasFile,
          outFile, exit, exc>>

-----------------------------------------------------------------------------
(* Bounds of the model *)

MaxTextLen == 3    \* length of the source text read by hit_api
MaxTokens == 2     \* number of tokens nlp() returns to lexikon_v2
MaxSenses == 2     \* entries of extra_data["all-translations"]

\* Code points the source texts are drawn from: ' ', '1', 'A', 'b', 'l'.
TextChars == {32, 49, 65, 98, 108}

\* Part-of-speech labels and translations a backend may answer with.
BackendPos == {"noun", "verb"}
Targets == {"t1", "t2"}

\* translation[1] of an all-translations entry: its list of translations.
TargetLists == {<<"t1">>, <<"t2", "t1">>}

-----------------------------------------------------------------------------
(* Characters and strings as Python handles them *)

\* str.lower() on the Latin-1 range.
LowerChar(c) ==
    IF c \in 65..90 \/ (c \in 192..222 /\ c # 215) THEN c + 32 ELSE c

lower(s) == [k \in 1..Len(s) |-> LowerChar(s[k])]

\* str.isspace(), which str.split(), str.strip() and the pattern \s use.
Whitespace == (9..13) \cup (28..32) \cup {133, 160}

IsSpace(c) == c \in Whitespace

SetMin(S) == CHOOSE x \in S : \A y \in S : x <= y
SetMax(S) == CHOOSE x \in S : \A y \in S : y <= x

strip(s) ==
    LET keep == {k \in 1..Len(s) : ~IsSpace(s[k])}
    IN  IF keep = {} THEN <<>> ELSE SubSeq(s, SetMin(keep), SetMax(keep))

\* Length of the run of non-whitespace characters s starts with.
WordEnd(s) ==
    LET stops == {k \in 1..Len(s) : IsSpace(s[k])}
    IN  IF stops = {} THEN Len(s) ELSE SetMin(stops) - 1

RECURSIVE split(_)
split(s) ==
    IF s = <<>> THEN <<>>
    ELSE IF IsSpace(s[1]) THEN split(Tail(s))
    ELSE <<SubSeq(s, 1, WordEnd(s))>> \o split(SubSeq(s, WordEnd(s) + 1, Len(s)))

RECURSIVE join(_, _)
join(sep, l) ==
    IF l = <<>> THEN <<>>
    ELSE IF Len(l) = 1 THEN l[1]
    ELSE l[1] \o sep \o join(sep, Tail(l))

\* Order of str comparison: lexicographic on code points.
RECURSIVE StrLess(_, _)
StrLess(a, b) ==
    IF a = <<>> THEN b # <<>>
    ELSE IF b = <<>> THEN FALSE
    ELSE IF a[1] # b[1] THEN a[1] < b[1]
    ELSE StrLess(Tail(a), Tail(b))

RECURSIVE InsertSorted(_, _)
InsertSorted(x, l) ==
    IF l = <<>> THEN <<x>>
    ELSE IF StrLess(l[1], x) THEN <<l[1]>> \o InsertSorted(x, Tail(l))
    ELSE <<x>> \o l

RECURSIVE sorted(_)
sorted(l) == IF l = <<>> THEN <<>> ELSE InsertSorted(l[1], sorted(Tail(l)))

set(l) == {l[k] : k \in DOMAIN l}

\* list(a_set): some enumeration of the set; sorted() makes the order moot.
RECURSIVE list(_)
list(S) ==
    IF S = {} THEN <<>>
    ELSE LET x == CHOOSE y \in S : TRUE IN <<x>> \o list(S \ {x})

-----------------------------------------------------------------------------
(* hit_api.py: cleaning and deduplication *)

\* The characters the pattern of remove_punctuation keeps: a-z, the
\* accented letters it lists, and the space.
KeptChars ==
    (97..122) \cup {228, 224, 226, 231, 233, 232, 234, 235, 238, 239, 244,
                    246, 251, 249, 252, 255, 241, 230, 339, 223, 32}

SourceLetters == KeptChars \ {32}

remove_punctuation(s) ==
    [k \in 1..Len(s) |-> IF s[k] \in KeptChars THEN s[k] ELSE 32]

\* stopwords.words('french'): its entries over the letters of TextChars.
StopWords == {<<108>>, <<108, 97>>}

remove_stop_words_blanked(s) ==
    join(<<32>>, [k \in 1..Len(split(s)) |->
                    IF split(s)[k] \in StopWords THEN <<>> ELSE split(s)[k]])

remove_stop_words(s) ==
    join(<<32>>, SelectSeq(split(s), LAMBDA word : word \notin StopWords))

RECURSIVE normalize_whitespace(_)
normalize_whitespace(s) ==
    IF s = <<>> THEN <<>>
    ELSE IF IsSpace(s[1])
         THEN IF Len(s) > 1 /\ IsSpace(s[2])
              THEN normalize_whitespace(Tail(s))
              ELSE <<32>> \o normalize_whitespace(Tail(s))
         ELSE <<s[1]>> \o normalize_whitespace(Tail(s))

clean(s) ==
    normalize_whitespace(remove_stop_words(remove_punctuation(lower(s))))

to_list(s) == split(s)

normalize_keep_duplicates(l) == sorted(l)

normalize(l) == sorted(list(set(l)))

to_unique_list(s) == normalize(to_list(s))

process(s) == to_unique_list(clean(s))

-----------------------------------------------------------------------------
(* hit_api.py: per-word resolution *)

\* What query_one_word can do for one word.  "raise": the request raises;
\* "no_extra_data": a result object without the attribute extra_data;
\* "no_key": extra_data has no "all-translations"; "none": it is None;
\* "list": it is the list `all`, each entry <<part of speech, translations>>
\* with at least one translation.
TranslationGroups == {<<p, ts>> : p \in BackendPos, ts \in TargetLists}

GroupLists == UNION {[1..n -> TranslationGroups] : n \in 0..MaxSenses}

QueryResults ==
    {[kind |-> k, all |-> <<>>] : k \in {"raise", "no_extra_data", "no_key", "none"}}
    \cup {[kind |-> "list", all |-> g] : g \in GroupLists}

NoResult == [kind |-> "unset", all |-> <<>>]

Sentinel(word) == [Source |-> word, PartOfSpeech |-> "?", Target |-> "???"]

single_translation_last(word, translation) ==
    [Source |-> word,
     PartOfSpeech |-> translation[1],
     Target |-> translation[2][Len(translation[2])]]

\* The record built from one entry of all-translations:
\* translation[0] and translation[1][0] in Python's 0-based indexing.
single_translation(word, translation) ==
    [Source |-> word,
     PartOfSpeech |-> translation[1],
     Target |-> translation[2][1]]

\* What one iteration of the loop appends to lexicon for `word`.
Reconcile(word, r) ==
    IF r.kind = "no_extra_data" THEN <<>>
    ELSE IF r.kind = "list"
         THEN [k \in 1..Len(r.all) |-> single_translation(word, r.all[k])]
         ELSE <<Sentinel(word)>>

\* The final loop: one printed line per record, "Source (PartOfSpeech) - Target".
PrintLines(lex) ==
    [k \in 1..Len(lex) |-> <<lex[k].Source, lex[k].PartOfSpeech, lex[k].Target>>]

-----------------------------------------------------------------------------
(* lexikon_v2.py: tag-based filtering *)

undesirable_pos ==
    {"SPACE", "PUNCT", "SYM", "NUM", "X", "DET", "ADP", "SCONJ", "CCONJ", "AUX"}

\* ('y', 'a', 'à', 'ô', 'ç')
OneLetterList == {<<121>>, <<97>>, <<224>>, <<244>>, <<231>>}

\* Lemmas the tagger may report: " ", "Y", "b", " B", "ab".
TestLemmas == {<<32>>, <<89>>, <<98>>, <<32, 66>>, <<97, 98>>}

\* Tokens the tagger may report: tokens passing the three token tests with
\* any lemma, and tokens failing exactly one of them.
TestTokens ==
    {[is_alpha |-> TRUE, is_stop |-> FALSE, pos_ |-> "NOUN", lemma_ |-> l] :
        l \in TestLemmas}
    \cup {[is_alpha |-> FALSE, is_stop |-> FALSE, pos_ |-> "NOUN", lemma_ |-> <<97, 98>>],
          [is_alpha |-> TRUE, is_stop |-> TRUE, pos_ |-> "VERB", lemma_ |-> <<97, 98>>],
          [is_alpha |-> TRUE, is_stop |-> FALSE, pos_ |-> "DET", lemma_ |-> <<97, 98>>],
          [is_alpha |-> TRUE, is_stop |-> FALSE, pos_ |-> "AUX", lemma_ |-> <<98>>]}

Docs == UNION {[1..n -> TestTokens] : n \in 0..MaxTokens}

TokenPasses(token) ==
    /\ token.is_alpha
    /\ ~token.is_stop
    /\ token.pos_ \notin undesirable_pos

LemmaOf(token) == strip(lower(token.lemma_))

KeepLemma_long_only(lemma) == Len(lemma) > 1

KeepLemma(lemma) ==
    Len(lemma) > 1 \/ (Len(lemma) = 1 /\ lemma \notin OneLetterList)

\* The dict unique_lemmas as its items in insertion order.
DictKeys(d) == [k \in 1..Len(d) |-> d[k][1]]

RECURSIVE LemmaLoop(_, _)
LemmaLoop(d, unique_lemmas) ==
    IF d = <<>> THEN unique_lemmas
    ELSE LET token == Head(d)
             lemma == LemmaOf(token)
         IN  IF /\ TokenPasses(token)
                /\ KeepLemma(lemma)
                /\ lemma \notin set(DictKeys(unique_lemmas))
             THEN LemmaLoop(Tail(d), Append(unique_lemmas, <<lemma, token.pos_>>))
             ELSE LemmaLoop(Tail(d), unique_lemmas)

extract_unique_lemmas(d) == sorted(DictKeys(LemmaLoop(d, <<>>)))

-----------------------------------------------------------------------------
(* lexikon_v2.py: batch translation, formatting, saving *)

EmptyDict == [w \in {} |-> <<>>]

DictSet(d, key, value) ==
    [w \in DOMAIN d \cup {key} |-> IF w = key THEN value ELSE d[w]]

\* The loop over enumerate(response.translations); words[i] raises
\* IndexError when the response is longer than the request.
RECURSIVE TranslateLoop(_, _, _, _)
TranslateLoop(ws, translations, k, data) ==
    IF k > Len(translations) THEN [exc |-> "none", data |-> data]
    ELSE IF k > Len(ws) THEN [exc |-> "IndexError", data |-> data]
    ELSE TranslateLoop(ws, translations, k + 1,
            DictSet(data, ws[k], <<[pos |-> "?", translation |-> translations[k]]>>))

Reverse(l) == [k \in 1..Len(l) |-> l[Len(l) + 1 - k]]

translate_word_list_reversed(ws, translations) ==
    TranslateLoop(ws, Reverse(translations), 1, EmptyDict)

translate_word_list(ws, translations) ==
    TranslateLoop(ws, translations, 1, EmptyDict)

\* Responses of the batch request to a request of n words: any list of
\* translations of up to n + 1 items.
BatchResponses(n) == UNION {[1..m -> Targets] : m \in 0..(n + 1)}

\* One line "word - translation" per lemma that has data.
RECURSIVE format_lexicon_output(_, _)
format_lexicon_output(data, spacy_lemmas) ==
    IF spacy_lemmas = <<>> THEN <<>>
    ELSE LET word == Head(spacy_lemmas)
             rest == format_lexicon_output(data, Tail(spacy_lemmas))
         IN  IF word \in DOMAIN data /\ data[word] # <<>>
             THEN <<<<word, data[word][1].translation>>>> \o rest
             ELSE rest

NoFile == [written |-> FALSE, lines |-> <<>>]

save_output(content) == [written |-> TRUE, lines |-> content]

-----------------------------------------------------------------------------
(* The two scripts as state machines *)

Texts == UNION {[1..n -> TextChars] : n \in 0..MaxTextLen}

\* Source texts of the tag-based script: "" and "b".  What nlp() makes of a
\* non-empty text is drawn from Docs.
TagTexts == {<<>>, <<98>>}

Init ==
    /\ prog \in {"hit_api", "lexikon_v2"}
    /\ fileState \in {"ok", "missing", "unreadable"}
    /\ fileContent \in IF fileState # "ok" THEN {<<>>}
                       ELSE IF prog = "hit_api" THEN Texts ELSE TagTexts
    /\ pc = IF prog = "hit_api" THEN "open" ELSE "load"
    /\ text = <<>>
    /\ cleaned = <<>>
    /\ doc = <<>>
    /\ words = <<>>
    /\ i = 1
    /\ result = NoResult
    /\ lexicon = <<>>
    /\ response = <<>>
    /\ lexicon_data = EmptyDict
    /\ printed = <<>>
    /\ lemmasFile = NoFile
    /\ outFile = NoFile
    /\ exit = "running"
    /\ exc = "none"

\* An uncaught exception: traceback, exit status 1.
Crash(e) ==
    /\ exc' = e
    /\ exit' = "1"
    /\ pc' = "done"

\* hit_api.py lines 10-12: open(filename), read, close.
HitOpen ==
    /\ pc = "open"
    /\ IF fileState = "ok"
       THEN /\ text' = fileContent
            /\ pc' = "process"
            /\ UNCHANGED <<exit, exc>>
       ELSE /\ Crash(IF fileState = "missing" THEN "FileNotFoundError" ELSE "OSError")
            /\ UNCHANGED text
    /\ UNCHANGED <<prog, fileState, fileContent, cleaned, doc, words, i, result,
                   lexicon, response, lexicon_data, printed, lemmasFile, outFile>>

\* hit_api.py line 55: words = process(text).
HitProcess ==
    /\ pc = "process"
    /\ cleaned' = clean(text)
    /\ words' = to_unique_list(clean(text))
    /\ pc' = "resolve"
    /\ UNCHANGED <<prog, fileState, fileContent, text, doc, i, result, lexicon,
                   response, lexicon_data, printed, lemmasFile, outFile, exit, exc>>

\* hit_api.py lines 73-93: one iteration of the resolution loop.
HitResolveWord ==
    /\ pc = "resolve"
    /\ i <= Len(words)
    /\ \E r \in QueryResults :
         IF r.kind = "raise"
         THEN /\ Crash("BackendError")
              /\ UNCHANGED <<result, lexicon, i>>
         ELSE /\ result' = r
              /\ lexicon' = lexicon \o Reconcile(words[i], r)
              /\ i' = i + 1
              /\ UNCHANGED <<pc, exit, exc>>
    /\ UNCHANGED <<prog, fileState, fileContent, text, cleaned, doc, words,
                   response, lexicon_data, printed, lemmasFile, outFile>>

\* hit_api.py lines 96-97: print the lexicon; the script ends.
HitPrint ==
    /\ pc = "resolve"
    /\ i > Len(words)
    /\ printed' = PrintLines(lexicon)
    /\ pc' = "done"
    /\ exit' = "0"
    /\ UNCHANGED <<prog, fileState, fileContent, text, cleaned, doc, words, i,
                   result, lexicon, response, lexicon_data, lemmasFile, outFile, exc>>

\* lexikon_v2.py lines 26-33 and 175-177: load_text, then exit() on "".
LoadText ==
    /\ pc = "load"
    /\ IF fileState = "unreadable"
       THEN /\ Crash("OSError")
            /\ UNCHANGED text
       ELSE /\ text' = IF fileState = "ok" THEN fileContent ELSE <<>>
            /\ exc' = exc
            /\ IF text' = <<>>
               THEN /\ exit' = "0"
                    /\ pc' = "done"
               ELSE /\ exit' = exit
                    /\ pc' = "extract"
    /\ UNCHANGED <<prog, fileState, fileContent, cleaned, doc, words, i, result,
                   lexicon, response, lexicon_data, printed, lemmasFile, outFile>>

\* lexikon_v2.py lines 181-185: extract_unique_lemmas, save unique_lemmas.txt.
ExtractLemmas ==
    /\ pc = "extract"
    /\ \E d \in Docs :
         /\ doc' = d
         /\ words' = extract_unique_lemmas(d)
         /\ lemmasFile' = save_output(extract_unique_lemmas(d))
    /\ pc' = "translate"
    /\ UNCHANGED <<prog, fileState, fileContent, text, cleaned, i, result, lexicon,
                   response, lexicon_data, printed, outFile, exit, exc>>

\* lexikon_v2.py line 191: translate_word_list; the request may raise.
Translate ==
    /\ pc = "translate"
    /\ \/ /\ Crash("BackendError")
          /\ UNCHANGED <<response, lexicon_data>>
       \/ \E translations \in BatchResponses(Len(words)) :
            LET r == translate_word_list(words, translations)
            IN  /\ response' = translations
                /\ IF r.exc = "none"
                   THEN /\ lexicon_data' = r.data
                        /\ pc' = "format"
                        /\ UNCHANGED <<exit, exc>>
                   ELSE /\ Crash(r.exc)
                        /\ UNCHANGED lexicon_data
    /\ UNCHANGED <<prog, fileState, fileContent, text, cleaned, doc, words, i,
                   result, lexicon, printed, lemmasFile, outFile>>

\* lexikon_v2.py lines 194-195: format_lexicon_output, save_output.
FormatAndSave ==
    /\ pc = "format"
    /\ outFile' = save_output(format_lexicon_output(lexicon_data, words))
    /\ pc' = "done"
    /\ exit' = "0"
    /\ UNCHANGED <<prog, fileState, fileContent, text, cleaned, doc, words, i,
                   result, lexicon, response, lexicon_data, printed, lemmasFile, exc>>

Next ==
    \/ HitOpen
    \/ HitProcess
    \/ HitResolveWord
    \/ HitPrint
    \/ LoadText
    \/ ExtractLemmas
    \/ Translate
    \/ FormatAndSave

Spec == Init /\ [][Next]_vars

-----------------------------------------------------------------------------
(* Vocabulary of the properties *)

\* An alphabetic character (Latin-1 range), as str.isalpha() tells.
IsAlphaChar(c) ==
    \/ c \in 65..90
    \/ c \in 97..122
    \/ c \in {170, 181, 186}
    \/ (c \in 192..255 /\ c \notin {215, 247})

\* The records of hit_api.lexicon whose Source is `word`, in order.
EntriesFor(word) == SelectSeq(lexicon, LAMBDA e : e.Source = word)

SensePairs(entries) ==
    [k \in 1..Len(entries) |-> <<entries[k].PartOfSpeech, entries[k].Target>>]

\* Every (part of speech, translation) pair of an all-translations list.
RECURSIVE FlattenPairs(_)
FlattenPairs(groups) ==
    IF groups = <<>> THEN <<>>
    ELSE [k \in 1..Len(groups[1][2]) |-> <<groups[1][1], groups[1][2][k]>>]
         \o FlattenPairs(Tail(groups))

\* a comes strictly before b in code point order.
CodepointBefore(a, b) ==
    \E k \in 1..(Len(b)) :
        /\ k <= Len(a) + 1
        /\ \A j \in 1..(k - 1) : a[j] = b[j]
        /\ (k = Len(a) + 1 \/ a[k] < b[k])

StrictlyIncreasing(l) ==
    \A k \in 1..(Len(l) - 1) : CodepointBefore(l[k], l[k + 1])

HitProcessed == prog = "hit_api" /\ pc \notin {"open", "process"}

TagExtracted == prog = "lexikon_v2" /\ lemmasFile.written

BatchTranslated == prog = "lexikon_v2" /\ (pc = "format" \/ outFile.written)

\* The word the last returned result belongs to.
LastWord == words[i - 1]

-----------------------------------------------------------------------------
(* C1 *)

\* C1 (sentinel completeness, as claimed): in every run that completes,
\* every word of the deduplicated list has at least one sense in the final
\* lexicon and a line in the output, whatever the backend answered; a word
\* for which nothing was resolved has the sentinel ("?", "???") as its only
\* sense.
C1_SentinelCompleteness ==
    (pc = "done" /\ exit = "0") =>
        \A w \in set(words) :
            IF prog = "hit_api"
            THEN /\ EntriesFor(w) # <<>>
                 /\ \E k \in DOMAIN printed : printed[k][1] = w
                 /\ (w = LastWord /\ (result.kind # "list" \/ result.all = <<>>))
                        => SensePairs(EntriesFor(w)) = <<<<"?", "???">>>>
            ELSE /\ w \in DOMAIN lexicon_data
                 /\ lexicon_data[w] # <<>>
                 /\ \E k \in DOMAIN outFile.lines : outFile.lines[k][1] = w
                 /\ (\A k \in 1..Len(response) : k <= Len(words) => words[k] # w)
                        => lexicon_data[w] = <<[pos |-> "?", translation |-> "???"]>>

-----------------------------------------------------------------------------
(* C2 *)

\* C2 (partial backend failure is non-fatal, as claimed): when the request
\* for one word raises in per-word resolution, that word gets exactly the
\* sentinel sense and the run still completes successfully.
C2_PartialFailureNonFatal ==
    (prog = "hit_api" /\ exc = "BackendError") =>
        /\ exit # "1"
        /\ SensePairs(EntriesFor(words[i])) = <<<<"?", "???">>>>

-----------------------------------------------------------------------------
(* C3 *)

-----------------------------------------------------------------------------
(* C4 *)

-----------------------------------------------------------------------------
(* C5 *)

\* C5 (missing input is fatal, as claimed): when the source file is missing
\* or unreadable the run ends with a non-zero exit status and no stage has
\* run: no tagging, no translation request, no output file.
C5_MissingInputFatal ==
    (fileState # "ok" /\ pc = "done") =>
        /\ exit = "1"
        /\ doc = <<>> /\ words = <<>>
        /\ result = NoResult /\ response = <<>>
        /\ ~lemmasFile.written /\ ~outFile.written

-----------------------------------------------------------------------------
(* C6 *)

\* C6 (empty lexicon still produces an output file, as claimed): when the
\* input is readable and the stages yield no base form, the finished run
\* has written the lexicon output file, with empty content.
C6_EmptyLexiconWritten ==
    (prog = "lexikon_v2" /\ fileState = "ok" /\ pc = "done" /\ words = <<>>) =>
        (outFile.written /\ outFile.lines = <<>>)

-----------------------------------------------------------------------------
(* C7 *)

C7_ExcludedPos ==
    {"SPACE", "PUNCT", "SYM", "NUM", "X", "DET", "ADP", "SCONJ", "CCONJ", "AUX"}

C7_OneLetters == {<<121>>, <<97>>, <<224>>, <<244>>, <<231>>}

\* Token k of the document satisfies the four conditions and its lemma,
\* lowercased and trimmed, is l.
C7_Supports(k, l) ==
    /\ doc[k].is_alpha
    /\ ~doc[k].is_stop
    /\ doc[k].pos_ \notin C7_ExcludedPos
    /\ strip(lower(doc[k].lemma_)) = l
    /\ (Len(l) > 1 \/ (Len(l) = 1 /\ l \notin C7_OneLetters))

\* C7 (tag-based inclusion rule): a lemma is in the result of
\* extract_unique_lemmas if and only if some token is alphabetic, is not a
\* stop word, has a part of speech outside the excluded set, and has that
\* lemma (lowercased, trimmed) of length > 1 or of length 1 outside the
\* one-letter list; the empty lemma is never included.
C7_InclusionRule ==
    TagExtracted =>
        /\ \A l \in set(words) \cup {strip(lower(doc[k].lemma_)) : k \in DOMAIN doc} :
              l \in set(words) <=> \E k \in DOMAIN doc : C7_Supports(k, l)
        /\ <<>> \notin set(words)

\* A one-letter lemma outside the list was included while a passing token
\* whose lemma lowers to "y" was not.
C7_Witness ==
    /\ TagExtracted
    /\ <<98>> \in set(words)
    /\ \E k \in DOMAIN doc :
          /\ doc[k].is_alpha /\ ~doc[k].is_stop /\ doc[k].pos_ = "NOUN"
          /\ doc[k].lemma_ = <<89>>
    /\ <<121>> \notin set(words)

-----------------------------------------------------------------------------
(* C8 *)

\* C8 (BaseForm invariant, as claimed): every word handed to the resolver
\* is non-empty, made of letters of the source alphabet only, and of length
\* >= 2 unless it is in the explicit one-letter list.
C8_BaseFormInvariant ==
    \A w \in set(words) :
        /\ w # <<>>
        /\ \A k \in DOMAIN w : w[k] \in SourceLetters
        /\ (Len(w) >= 2 \/ w \in C7_OneLetters)

-----------------------------------------------------------------------------
(* C9 *)

\* C9 (deduplicator output order): the deduplicated list holds exactly the
\* distinct words of its input and is strictly increasing in code point
\* order, for normalize (hit_api) and extract_unique_lemmas (lexikon_v2).
C9_DedupSorted ==
    /\ HitProcessed =>
          /\ set(words) = set(to_list(cleaned))
          /\ StrictlyIncreasing(words)
    /\ TagExtracted =>
          /\ set(words) = set(DictKeys(LemmaLoop(doc, <<>>)))
          /\ StrictlyIncreasing(words)

\* Two words that the text had in decreasing order.
C9_Witness ==
    /\ HitProcessed
    /\ Len(words) = 2
    /\ to_list(cleaned) = <<words[2], words[1]>>

-----------------------------------------------------------------------------
(* C10 *)

\* C10 (normalizer totality): the cleaned text holds only source-alphabet
\* letters and spaces, has no leading, trailing or double space, and is
\* empty when the input has no alphabetic character.
C10_NormalizerTotality ==
    HitProcessed =>
        /\ \A k \in DOMAIN cleaned : cleaned[k] \in SourceLetters \cup {32}
        /\ cleaned # <<>> => (cleaned[1] # 32 /\ cleaned[Len(cleaned)] # 32)
        /\ \A k \in 1..(Len(cleaned) - 1) : ~(cleaned[k] = 32 /\ cleaned[k + 1] = 32)
        /\ (\A k \in DOMAIN text : ~IsAlphaChar(text[k])) => cleaned = <<>>

\* A text with an upper-case letter and a digit between two words.
C10_Witness ==
    /\ HitProcessed
    /\ \E k \in DOMAIN text : text[k] = 49
    /\ \E k \in DOMAIN text : text[k] = 65
    /\ \E k \in DOMAIN cleaned : cleaned[k] = 32

=============================================================================
